---- MODULE Spec2Model ----
(***************************************************************************)
(* A model of the notebook P2.ipynb (Py3DImage, part 2): the filter,       *)
(* metric, enhancement, threshold, cleanup and save statements applied to  *)
(* a volume held in memory.                                                *)
(*                                                                         *)
(* A volume is a sequence (depth) of sequences (height) of sequences       *)
(* (width) of samples, indexed from 1; numpy's index k is index k+1 here.  *)
(* Samples of the loaded stack are unsigned 8-bit integers.  Real-valued   *)
(* intermediate results are kept as exact fractions <<num, den>>, and the  *)
(* two Gaussian kernels as fixed-point integer weights whose sum is the    *)
(* scale, so the rounding of 64-bit floats is not part of the model.       *)
(***************************************************************************)
EXTENDS Integers, Sequences, FiniteSets, Bags, TLC

(***************************************************************************)
(* Bounds of the model.                                                    *)
(***************************************************************************)
\* largest depth, height and width of a volume given to the filters
MaxDim == 3
\* largest number of voxels of a two-valued volume given to the filters
MaxMixedVoxels == 4
\* largest depth of a volume given to adaptive_threshold_3d on its own
AdaptiveDepth == 2

(***************************************************************************)
(* Constants of the program.                                               *)
(***************************************************************************)
\* size = 3, the window of the median, uniform, maximum, minimum,
\* percentile and rank filters
size == 3
\* percentile=75 of ndimage.percentile_filter
percentile == 75
\* rank=5 of ndimage.rank_filter
rank == 5
\* block_size=35 of adaptive_threshold_3d
block_size == 35
\* offset=10 of adaptive_threshold_3d
offset == 10
\* min_size = 100 of the cleanup cell
MinSizeNotebook == 100
\* nbins of an unsigned 8-bit image: one bin per integer value
Byte == 256

\* The value of an array variable that has not been assigned.
None == <<>>

\* The value of a threshold that has not been computed.
NoThreshold == -1

\* The value of the metrics before calculate_metrics has returned.
NoMetrics == [mse |-> <<0, 0>>, snr |-> [kind |-> "none", of |-> <<0, 0>>]]

(***************************************************************************)
(* Arrays.                                                                 *)
(***************************************************************************)
Shape(v) == <<Len(v), Len(v[1]), Len(v[1][1])>>

\* An array is built as tuples (\o <<>>), so that it is held as its samples
\* and not as a rule that recomputes them at every access.
Tuple2(a) == [y \in DOMAIN a |-> [x \in DOMAIN a[y] |-> a[y][x]] \o <<>>] \o <<>>

Tuple3(v) == [z \in DOMAIN v |-> Tuple2(v[z])] \o <<>>

Zs(v) == 1..Len(v)
Ys(v) == 1..Len(v[1])
Xs(v) == 1..Len(v[1][1])

Idx(shape) == (1..shape[1]) \X (1..shape[2]) \X (1..shape[3])

Val(v, p) == v[p[1]][p[2]][p[3]]

Values(v) == {Val(v, p) : p \in Idx(Shape(v))}

\* The sum of f over S, for f with no negative value: the size of the bag
\* with f[e] + 1 copies of each e, less one copy of each.
SumOver(f, S) == BagCardinality([e \in S |-> f[e] + 1]) - Cardinality(S)

RECURSIVE SumFn(_, _, _)
SumFn(f, lo, hi) ==
  IF lo > hi THEN 0
  ELSE IF lo = hi THEN f[lo]
  ELSE SumFn(f, lo, (lo + hi) \div 2) + SumFn(f, (lo + hi) \div 2 + 1, hi)

Abs(k) == IF k < 0 THEN 0 - k ELSE k

Min(S) == CHOOSE a \in S : \A b \in S : a <= b

Max(S) == CHOOSE a \in S : \A b \in S : b <= a

\* the sum of the samples of v at the places P
SumAt(v, P) == SumOver([p \in P |-> Val(v, p)], P)

\* numpy's arithmetic on uint8 arrays wraps modulo 2^8
Uint8(n) == n % Byte

(***************************************************************************)
(* scipy.ndimage filters.  None of the calls passes mode=, so the border   *)
(* is extended by mode='reflect': (d c b a | a b c d | d c b a).           *)
(***************************************************************************)
Reflect(i, n) ==
  LET j == (i - 1) % (2 * n) IN IF j < n THEN j + 1 ELSE 2 * n - j

\* The border mode 'constant' with cval = 0, which the calls do not ask for.
SampleConstant(v, z, y, x) ==
  IF /\ z \in 1..Len(v) /\ y \in 1..Len(v[1]) /\ x \in 1..Len(v[1][1])
  THEN v[z][y][x] ELSE 0

Sample(v, z, y, x) ==
  v[Reflect(z, Len(v))][Reflect(y, Len(v[1]))][Reflect(x, Len(v[1][1]))]

\* the sample at distance o from (z, y, x) along an axis (1: depth, 2: height, 3: width)
Along(v, z, y, x, axis, o) ==
  CASE axis = 1 -> Sample(v, z + o, y, x)
    [] axis = 2 -> Sample(v, z, y + o, x)
    [] axis = 3 -> Sample(v, z, y, x + o)

Radius == size \div 2

Offsets == (0 - Radius)..Radius

Footprint == Offsets \X Offsets \X Offsets

Window(v, z, y, x) ==
  [o \in Footprint |-> Sample(v, z + o[1], y + o[2], x + o[3])]

\* element k (from 0) of the sorted window
KthSmallest(w, k) ==
  CHOOSE a \in {w[o] : o \in DOMAIN w} :
    /\ Cardinality({o \in DOMAIN w : w[o] < a}) <= k
    /\ k < Cardinality({o \in DOMAIN w : w[o] <= a})

RankOfWindow(v, k) ==
  Tuple3([z \in Zs(v) |-> [y \in Ys(v) |-> [x \in Xs(v) |->
      KthSmallest(Window(v, z, y, x), k)]]])

FootprintSize == Cardinality(Footprint)

\* a median that returns no value for the last slice of a volume of several
MedianWithoutLastSlice(v) ==
  LET m == RankOfWindow(v, FootprintSize \div 2)
  IN  IF Len(m) > 1 THEN SubSeq(m, 1, Len(m) - 1) ELSE m

median_filter(v) == RankOfWindow(v, FootprintSize \div 2)

maximum_filter(v) == RankOfWindow(v, FootprintSize - 1)

minimum_filter(v) == RankOfWindow(v, 0)

percentile_filter(v) == RankOfWindow(v, (FootprintSize * percentile) \div 100)

rank_filter(v) == RankOfWindow(v, rank)

\* One pass of the running mean along an axis; the result is stored in an
\* array of the input's type, which truncates it.
uniform_filter1d(v, axis) ==
  Tuple3([z \in Zs(v) |-> [y \in Ys(v) |-> [x \in Xs(v) |->
      SumFn([o \in Offsets |-> Along(v, z, y, x, axis, o)], 0 - Radius, Radius) \div size]]])

uniform_filter(v) ==
  uniform_filter1d(uniform_filter1d(uniform_filter1d(v, 1), 2), 3)

\* sigma = 1.0, truncate = 4.0: radius 4; exp(-k^2/2) normalised, in 1/10000
GaussWeights == <<3990, 2420, 540, 44, 1>>

GaussRadius == Len(GaussWeights) - 1

GaussTaps == (0 - GaussRadius)..GaussRadius

GaussScale == SumFn([k \in GaussTaps |-> GaussWeights[Abs(k) + 1]], 0 - GaussRadius, GaussRadius)

\* One pass of the kernel along an axis; as in uniform_filter1d the result is
\* stored in an array of the input's type, which truncates it.
gaussian_filter1d(v, axis) ==
  Tuple3([z \in Zs(v) |-> [y \in Ys(v) |-> [x \in Xs(v) |->
      SumFn([k \in GaussTaps |-> GaussWeights[Abs(k) + 1] * Along(v, z, y, x, axis, k)],
          0 - GaussRadius, GaussRadius) \div GaussScale]]])

gaussian_filter(v) ==
  gaussian_filter1d(gaussian_filter1d(gaussian_filter1d(v, 1), 2), 3)

(***************************************************************************)
(* skimage.filters thresholds.  A fraction is <<numerator, denominator>>   *)
(* with a positive denominator.                                            *)
(***************************************************************************)
FracLess(a, b) == a[1] * b[2] < b[1] * a[2]

\* np.argmax of a sequence of fractions: the first index of the maximum
argmax(crit) ==
  CHOOSE k \in 1..Len(crit) :
    /\ \A j \in 1..(k - 1) : FracLess(crit[j], crit[k])
    /\ \A j \in (k + 1)..Len(crit) : ~FracLess(crit[k], crit[j])

\* elementwise volume > threshold
Greater(v, t) == Tuple3([z \in Zs(v) |-> [y \in Ys(v) |-> [x \in Xs(v) |->
      v[z][y][x] > t]]])

\* elementwise volume >= threshold, which the notebook does not compute
GreaterEqual(v, t) == Tuple3([z \in Zs(v) |-> [y \in Ys(v) |-> [x \in Xs(v) |->
      v[z][y][x] >= t]]])

Binarize(v, t) == Greater(v, t)

Places(v) == Idx(Shape(v))

\* counts of the histogram of an integer image, one bin per value from the
\* minimum to the maximum: counts[b] and the cumulative sums over it
CountOf(v, b) == Cardinality({p \in Places(v) : Val(v, p) = b})

\* weight1[i] = cumsum(counts)[i] and weight2[i] = cumsum(counts[::-1])[::-1][i]
weight1(v, b) == Cardinality({p \in Places(v) : Val(v, p) <= b})

weight2(v, b) == Cardinality({p \in Places(v) : Val(v, p) >= b})

\* cumsum(counts * bin_centers), from the left and from the right
moment1(v, b) == SumAt(v, {p \in Places(v) : Val(v, p) <= b})

moment2(v, b) == SumAt(v, {p \in Places(v) : Val(v, p) >= b})

\* variance12 = weight1[:-1] * weight2[1:] * (mean1[:-1] - mean2[1:]) ** 2
variance12(v, b) ==
  LET w1 == weight1(v, b)
      w2 == weight2(v, b + 1)
      d  == moment1(v, b) * w2 - moment2(v, b + 1) * w1
  IN  <<d * d, w1 * w2>>

threshold_otsu(v) ==
  LET first_pixel == v[1][1][1]
      lo == Min(Values(v))
      hi == Max(Values(v))
  IN  IF Values(v) = {first_pixel} THEN first_pixel
      ELSE lo + argmax([k \in 1..(hi - lo) |-> variance12(v, lo + k - 1)] \o <<>>) - 1

\* cumsum(pmf ** 2) from the left and from the right, times the square of the
\* number of voxels
sq1(v, b) ==
  LET B == {a \in Values(v) : a <= b}
  IN  SumOver([a \in B |-> CountOf(v, a) * CountOf(v, a)], B)

sq2(v, b) ==
  LET B == {a \in Values(v) : a >= b}
  IN  SumOver([a \in B |-> CountOf(v, a) * CountOf(v, a)], B)

\* crit = log(((P1_sq[:-1] * P2_sq[1:]) ** -1) * (P1[:-1] * (1.0 - P1[:-1])) ** 2);
\* the logarithm is increasing, so the argmax is that of its argument
yen_crit(v, b) ==
  LET c == weight1(v, b)
      n == Cardinality(Places(v))
  IN  <<(c * (n - c)) * (c * (n - c)), sq1(v, b) * sq2(v, b + 1)>>

threshold_yen(v) ==
  LET lo == Min(Values(v))
      hi == Max(Values(v))
  IN  IF lo = hi THEN lo
      ELSE lo + argmax([k \in 1..(hi - lo) |-> yen_crit(v, lo + k - 1)] \o <<>>) - 1

\* threshold_local(method='gaussian'): sigma = (block_size - 1) / 6, radius
\* int(4 * sigma + 0.5); exp(-k^2 / (2 sigma^2)) normalised, in 1/1000
LocalRadius == (8 * (block_size - 1) + 6) \div 12

LocalWeights ==
  <<74, 69, 66, 61, 55, 48, 40, 33, 26, 20, 15, 11, 7, 5, 3, 2, 1, 1, 0, 0, 0, 0, 0, 0>>

LocalTaps == (0 - LocalRadius)..LocalRadius

LocalScale == SumFn([k \in LocalTaps |-> LocalWeights[Abs(k) + 1]], 0 - LocalRadius, LocalRadius)

\* the Gaussian-weighted mean of a slice, times LocalScale^2
LocalMean(s) ==
  LET h == Len(s)
      w == Len(s[1])
      rows == Tuple2([y \in 1..h |-> [x \in 1..w |->
      SumFn([k \in LocalTaps |-> LocalWeights[Abs(k) + 1] * s[Reflect(y + k, h)][x]],
                      0 - LocalRadius, LocalRadius)]])
  IN  Tuple2([y \in 1..h |-> [x \in 1..w |->
      SumFn([k \in LocalTaps |-> LocalWeights[Abs(k) + 1] * rows[y][Reflect(x + k, w)]],
              0 - LocalRadius, LocalRadius)]])

\* volume[i] > threshold_local(volume[i], block_size, offset, 'gaussian'),
\* the threshold being the local mean minus offset
SliceAboveLocal(s) ==
  LET m == LocalMean(s)
  IN  Tuple2([y \in 1..Len(s) |-> [x \in 1..Len(s[1]) |->
      (s[y][x] + offset) * LocalScale * LocalScale > m[y][x]]])

\* a loop body that takes the threshold map of the first slice for every slice
ThresholdSliceOfFirst(volume, idx) == SliceAboveLocal(volume[1])

\* the body of the loop of adaptive_threshold_3d for the index idx (from 0):
\* local_thresh = filters.threshold_local(volume[idx], ...);
\* volume[idx] > local_thresh
ThresholdSlice(volume, idx) == SliceAboveLocal(volume[idx + 1])

\* np.zeros_like(volume, dtype=bool)
ZerosLike(volume) ==
  Tuple3([z \in Zs(volume) |-> [y \in Ys(volume) |-> [x \in Xs(volume) |-> FALSE]]])

\* for i in range(volume.shape[0]): binary[i] = ..., from the index idx on
RECURSIVE AdaptiveLoop(_, _, _)
AdaptiveLoop(volume, bin, idx) ==
  IF idx >= Len(volume) THEN bin
  ELSE AdaptiveLoop(volume, [bin EXCEPT ![idx + 1] = ThresholdSlice(volume, idx)], idx + 1)

adaptive_threshold_3d(volume) == AdaptiveLoop(volume, ZerosLike(volume), 0)

(***************************************************************************)
(* Binary cleanup: skimage.morphology.remove_small_objects (connectivity 1)*)
(* and scipy.ndimage.binary_fill_holes (the default structure).            *)
(***************************************************************************)
Foreground(b) == {p \in Places(b) : Val(b, p)}

\* generate_binary_structure(3, 1): the six face neighbours
FaceNeighbours(p) ==
  { <<p[1] - 1, p[2], p[3]>>, <<p[1] + 1, p[2], p[3]>>,
    <<p[1], p[2] - 1, p[3]>>, <<p[1], p[2] + 1, p[3]>>,
    <<p[1], p[2], p[3] - 1>>, <<p[1], p[2], p[3] + 1>> }

\* what is reached from the frontier by steps between face neighbours inside allowed
RECURSIVE Flood(_, _, _)
Flood(frontier, seen, allowed) ==
  IF frontier = {} THEN seen
  ELSE LET next == (UNION {FaceNeighbours(p) : p \in frontier} \cap allowed) \ seen
       IN  Flood(next, seen \cup next, allowed)

\* ndi.label: the connected components of a set of voxels
RECURSIVE Label(_)
Label(fg) ==
  IF fg = {} THEN {}
  ELSE LET p == CHOOSE q \in fg : TRUE
           c == Flood({p}, {p}, fg)
       IN  {c} \cup Label(fg \ c)

\* a removal with the comparison the other way round: the large components go
RemoveLargeObjects(ar, ms) ==
  LET keep == UNION {c \in Label(Foreground(ar)) : Cardinality(c) < ms}
  IN  Tuple3([z \in Zs(ar) |-> [y \in Ys(ar) |-> [x \in Xs(ar) |->
      <<z, y, x>> \in keep]]])

\* a removal that takes no component out
RemoveNoObjects(ar, ms) ==
  Tuple3([z \in Zs(ar) |-> [y \in Ys(ar) |-> [x \in Xs(ar) |-> Val(ar, <<z, y, x>>)]]])

\* too_small = component_sizes < min_size; out[too_small_mask] = 0
remove_small_objects(ar, ms) ==
  LET keep == UNION {c \in Label(Foreground(ar)) : Cardinality(c) >= ms}
  IN  Tuple3([z \in Zs(ar) |-> [y \in Ys(ar) |-> [x \in Xs(ar) |->
      <<z, y, x>> \in keep]]])

OnBorder(p, shape) == \E a \in 1..3 : p[a] = 1 \/ p[a] = shape[a]

\* a fill by one step of dilation: the background next to the foreground
DilateOnce(input) ==
  LET fg == Foreground(input)
      grown == fg \cup (UNION {FaceNeighbours(p) : p \in fg} \cap Places(input))
  IN  Tuple3([z \in Zs(input) |-> [y \in Ys(input) |-> [x \in Xs(input) |->
      <<z, y, x>> \in grown]]])

\* the complement of the background reached from outside the array
binary_fill_holes(input) ==
  LET mask == Places(input) \ Foreground(input)
      seed == {p \in mask : OnBorder(p, Shape(input))}
      outside == Flood(seed, seed, mask)
  IN  Tuple3([z \in Zs(input) |-> [y \in Ys(input) |-> [x \in Xs(input) |->
      <<z, y, x>> \notin outside]]])

(***************************************************************************)
(* Quality metrics.                                                        *)
(***************************************************************************)
RECURSIVE GCD(_, _)
GCD(a, b) == IF b = 0 THEN a ELSE GCD(b, a % b)

\* a fraction in lowest terms
Reduce(q) == LET g == GCD(q[1], q[2]) IN IF g = 0 THEN q ELSE <<q[1] \div g, q[2] \div g>>

\* (original - filtered) ** 2 on uint8 arrays: the difference and the square
\* stay uint8 and wrap
SquaredError(o, f) == Uint8(Uint8(o - f) * Uint8(o - f))

\* np.var(original): the mean of |x - mean|^2, in float64
var(v) ==
  LET P == Places(v)
      n == Cardinality(P)
      s == SumAt(v, P)
  IN  <<SumOver([p \in P |-> (n * Val(v, p) - s) * (n * Val(v, p) - s)], P), n * n * n>>

\* The quotient without the test mse > 0, which the notebook makes.
SnrNoGuard(variance, mse) ==
  [kind |-> "dB", of |-> <<variance[1] * mse[2], variance[2] * mse[1]>>]

\* snr = 10 * np.log10(np.var(original) / mse) if mse > 0 else float('inf');
\* the finite value is kept as the fraction whose logarithm it is
Snr(variance, mse) ==
  IF mse[1] > 0
  THEN [kind |-> "dB", of |-> Reduce(<<variance[1] * mse[2], variance[2] * mse[1]>>)]
  ELSE [kind |-> "inf", of |-> <<1, 0>>]

calculate_metrics(orig, filt) ==
  LET P == Places(orig)
      mse == <<SumOver([p \in P |-> SquaredError(Val(orig, p), Val(filt, p))], P),
               Cardinality(P)>>
  IN  [mse |-> mse, snr |-> Snr(var(orig), mse)]

(***************************************************************************)
(* create_enhancement_grid.  A float image is [num, den]: the samples      *)
(* num[y][x] / den over one denominator.  The factors 0.7, 1.0 and 1.3 are *)
(* kept in tenths.                                                         *)
(***************************************************************************)
Factors == <<7, 10, 13>>

Sum2(a) == SumFn([y \in 1..Len(a) |-> SumFn(a[y], 1, Len(a[y]))], 1, Len(a))

\* img_as_float of a uint8 image divides by 255
img_as_float(s) == [num |-> s, den |-> Byte - 1]

\* enhanced * factor
Times(img, tenths) ==
  [num |-> Tuple2([y \in DOMAIN img.num |-> [x \in DOMAIN img.num[y] |->
      LET n == img.num[y][x] IN n * tenths]]), den |-> img.den * 10]

\* enhanced - enhanced.mean() + 0.5
Recentre(img) ==
  LET n == Len(img.num) * Len(img.num[1])
      s == Sum2(img.num)
  IN  [num |-> Tuple2([y \in DOMAIN img.num |-> [x \in DOMAIN img.num[y] |->
      LET a == img.num[y][x] IN 2 * n * a - 2 * s + n * img.den]]),
       den |-> 2 * n * img.den]

\* np.clip(enhanced, 0, 1)
Clip01(img) ==
  [num |-> Tuple2([y \in DOMAIN img.num |-> [x \in DOMAIN img.num[y] |->
      LET a == img.num[y][x] IN IF a < 0 THEN 0 ELSE IF a > img.den THEN img.den ELSE a]]),
   den |-> img.den]

\* np.rint: to the nearest integer, halves to the even one
Rint(n, d) ==
  LET q == n \div d
      r == n % d
  IN  IF 2 * r < d THEN q
      ELSE IF 2 * r > d THEN q + 1
      ELSE IF q % 2 = 0 THEN q ELSE q + 1

\* img_as_ubyte of a float image: rint(x * 255), clipped to 0..255
img_as_ubyte(img) ==
  Tuple2([y \in DOMAIN img.num |-> [x \in DOMAIN img.num[y] |->
      LET a == img.num[y][x] IN LET r == Rint((Byte - 1) * a, img.den)
    IN  IF r < 0 THEN 0 ELSE IF r > Byte - 1 THEN Byte - 1 ELSE r]])

\* The steps with the clip before the brightness, which the notebook does not do.
EnhanceClipFirst(img_float, contrast, brightness) ==
  img_as_ubyte(Times(Clip01(Recentre(Times(img_float, contrast))), brightness))

\* the body of the double loop, for one contrast and one brightness
Enhance(img_float, contrast, brightness) ==
  img_as_ubyte(Clip01(Times(Recentre(Times(img_float, contrast)), brightness)))

\* slice_idx = image_3d.shape[0] // 2, an index from 0
MiddleSlice(v) == v[(Len(v) \div 2) + 1]

create_enhancement_grid(v) ==
  LET img_float == img_as_float(MiddleSlice(v))
  IN  [ij \in (1..Len(Factors)) \X (1..Len(Factors)) |->
        Enhance(img_float, Factors[ij[1]], Factors[ij[2]])]

(***************************************************************************)
(* The writer and the reader of the stack binary_result.tif: a file is its *)
(* pages, each with its tags and its samples, and the shape it records.    *)
(***************************************************************************)
\* filled.astype(np.uint8) * 255, for one voxel
ToUint8Times255(b) == Uint8((IF b THEN 1 ELSE 0) * (Byte - 1))

Encode(b) == Tuple3([z \in Zs(b) |-> [y \in Ys(b) |-> [x \in Xs(b) |->
      ToUint8Times255(b[z][y][x])]]])

\* the samples of an array in the order of its memory: x fastest, z slowest
Flatten(data) ==
  LET h == Len(data[1])
      w == Len(data[1][1])
  IN  [k \in 1..(Len(data) * h * w) |->
        data[((k - 1) \div (h * w)) + 1][(((k - 1) \div w) % h) + 1][((k - 1) % w) + 1]] \o <<>>

\* the extents the writer takes for colour samples when no photometric is given
RGBSamples == {3, 4}

Page(length, width, samples, photometric, planar, strip) ==
  [ImageLength |-> length, ImageWidth |-> width, SamplesPerPixel |-> samples,
   PhotometricInterpretation |-> photometric, PlanarConfiguration |-> planar,
   strip |-> strip]

\* tifffile.imwrite(file, data) of an 8-bit array of three axes, photometric
\* not given.  An array whose last extent is 3 or 4 is written as one page
\* of RGB(A) pixels.  An array whose first extent is 3 or 4 is written as
\* one page of separate colour planes by the versions that still detect
\* this (separate_planes), and as pages by the others.  Any other array is
\* written as one MINISBLACK page per index of the first axis.  The shape is
\* kept in the description of the first page.
imwrite(data, separate_planes) ==
  LET shape == Shape(data)
      flat == Flatten(data)
      area == shape[2] * shape[3]
  IN  [shape |-> shape,
       pages |->
         IF shape[3] \in RGBSamples
         THEN <<Page(shape[1], shape[2], shape[3], "RGB", "CONTIG", flat)>>
         ELSE IF shape[1] \in RGBSamples /\ separate_planes
         THEN <<Page(shape[2], shape[3], shape[1], "RGB", "SEPARATE", flat)>>
         ELSE [z \in 1..shape[1] |->
                Page(shape[2], shape[3], 1, "MINISBLACK", "CONTIG",
                     SubSeq(flat, (z - 1) * area + 1, z * area))] \o <<>>]

RECURSIVE Concat(_, _)
Concat(pages, k) == IF k > Len(pages) THEN <<>> ELSE pages[k].strip \o Concat(pages, k + 1)

\* tifffile.imread(file): the samples of the pages in their order, in the
\* shape the description gives
imread(f) ==
  LET flat == Concat(f.pages, 1)
      h == f.shape[2]
      w == f.shape[3]
  IN  Tuple3([z \in 1..f.shape[1] |-> [y \in 1..h |-> [x \in 1..w |->
        flat[(z - 1) * h * w + (y - 1) * w + x]]]])

(***************************************************************************)
(* State.                                                                  *)
(***************************************************************************)
VARIABLES
  pc,               \* the statement the notebook executes next
  image_3d,         \* the loaded volume
  filters_dict,     \* the seven filtered volumes, by the name the metrics table gives them
  original,         \* the arguments of a call of calculate_metrics
  filtered,
  returned,         \* what that call returned: mse and snr
  metrics,          \* the rows of the metrics table: mse and snr, by filter name
  grid,             \* the nine images create_enhancement_grid shows
  otsu_threshold,
  otsu_binary,
  binary,           \* the local of adaptive_threshold_3d
  i,                \* its loop index, from 0
  adaptive_binary,
  yen_threshold,
  yen_binary,
  min_size,
  cleaned,
  filled,
  file,             \* the pages of binary_result.tif
  read_back,        \* what reading binary_result.tif returns
  namespace,        \* the library names bound in the kernel that no cell imports
  image_url,        \* the configured URL of the stack
  local_file,       \* the file at image_path: whether it exists and what it decodes to
  response,         \* the response of the last requests.get
  requests_log,     \* the URLs requested, in order
  stdout,           \* the messages the loader has printed
  exceptions,       \* the exceptions raised: the cell, the kind, whether an except caught it
  fig_2d,           \* the volume whose slices the loader cell has plotted
  rendered          \* the volume given to show_cube

filterVars == <<image_3d, filters_dict>>

metricVars == <<original, filtered, returned, metrics>>

thresholdVars == <<otsu_threshold, otsu_binary, binary, i, adaptive_binary, yen_threshold, yen_binary>>

cleanupVars == <<min_size, cleaned, filled>>

fileVars == <<file, read_back>>

loaderVars == <<image_url, local_file, response, requests_log>>

kernelVars == <<namespace, stdout, exceptions>>

notebookVars == <<loaderVars, kernelVars, fig_2d, rendered>>

vars == <<pc, filterVars, metricVars, grid, thresholdVars, cleanupVars, fileVars, notebookVars>>

FilterNames ==
  {"Gaussian", "Median", "Uniform", "Maximum", "Minimum", "Percentile-75", "Rank"}

median_filtered == filters_dict["Median"]

(***************************************************************************)
(* The kernel and the loader.  A URL is its host and the segments of its   *)
(* path.  The file at image_path exists or not, and decodes to a volume or *)
(* to nothing (data = None).                                               *)
(***************************************************************************)
\* the names the cells use and no cell imports
LibraryNames == {"ndimage", "filters", "morphology", "time"}

Bound(name) == name \in namespace

\* image_url of the notebook, and two URLs of the form the loader rewrites
NotebookURL ==
  [host |-> "github.com",
   path |-> <<"ArashRabbani", "Py3DImage", "raw", "fb8c73c183ad", "cropped_250.tif">>]

BlobURL ==
  [host |-> "github.com",
   path |-> <<"ArashRabbani", "Py3DImage", "blob", "main", "cropped_250.tif">>]

BlobNameURL ==
  [host |-> "github.com",
   path |-> <<"ArashRabbani", "blobs", "raw", "main", "cropped_250.tif">>]

URLs == {NotebookURL, BlobURL, BlobNameURL}

\* 'blob' in s, for the strings these URLs are made of
HasBlob(s) == s \in {"blob", "blobs"}

\* 'blob' in image_url
ContainsBlob(url) == HasBlob(url.host) \/ \E k \in DOMAIN url.path : HasBlob(url.path[k])

\* parsed_url.path.replace('/blob/', '/'), from segment k on: a segment blob
\* between two slashes goes; the slash after it is used up, so the segment
\* that follows stays
RECURSIVE ReplaceBlob(_, _)
ReplaceBlob(path, k) ==
  IF k > Len(path) THEN <<>>
  ELSE IF path[k] = "blob" /\ k < Len(path)
  THEN <<path[k + 1]>> \o ReplaceBlob(path, k + 2)
  ELSE <<path[k]>> \o ReplaceBlob(path, k + 1)

raw_url(url) == [host |-> "raw.githubusercontent.com", path |-> ReplaceBlob(url.path, 1)]

\* the status codes a server answers with: 200 and one that is not 200
Statuses == {200, 404}

NoResponse == [status_code |-> 0, content |-> None]

Absent == [exists |-> FALSE, data |-> None]

Corrupt == [exists |-> TRUE, data |-> None]

\* tifffile.imread(image_path) returns an array
Readable(f) == f.exists /\ f.data # None

\* The kernel after the loader cell has read an existing stack, with every
\* library name bound.
Loaded ==
  /\ namespace = LibraryNames
  /\ image_url = NotebookURL
  /\ local_file = [exists |-> image_3d # None, data |-> image_3d]
  /\ response = NoResponse
  /\ requests_log = <<>>
  /\ stdout = <<>>
  /\ exceptions = <<>>
  /\ fig_2d = image_3d
  /\ rendered = None

(***************************************************************************)
(* The volumes the filters are run on: every constant volume up to MaxDim  *)
(* in each direction, and every volume of the two intensities 50 and 200   *)
(* of at most MaxMixedVoxels voxels.                                       *)
(***************************************************************************)
Samples == {0, 5, 50, 200, 255}

Clusters == {50, 200}

Dims == 1..MaxDim

Shapes == Dims \X Dims \X Dims

VolumesOver(shape, S) ==
  {Tuple3([z \in 1..shape[1] |-> [y \in 1..shape[2] |-> [x \in 1..shape[3] |->
      f[<<z, y, x>>]]]]) : f \in [Idx(shape) -> S]}

ConstantVolumes ==
  {Tuple3([z \in 1..shape[1] |-> [y \in 1..shape[2] |-> [x \in 1..shape[3] |->
      c]]]) : shape \in Shapes, c \in Samples}

MixedVolumes ==
  UNION {VolumesOver(shape, Clusters) :
           shape \in {sh \in Shapes : sh[1] * sh[2] * sh[3] <= MaxMixedVoxels}}

NoFilters == filters_dict = [n \in FilterNames |-> None]

NoMetricsYet ==
  /\ original = None
  /\ filtered = None
  /\ returned = NoMetrics
  /\ metrics = [n \in FilterNames |-> NoMetrics]

NoThresholds ==
  /\ otsu_threshold = NoThreshold
  /\ otsu_binary = None
  /\ binary = None
  /\ i = 0
  /\ adaptive_binary = None
  /\ yen_threshold = NoThreshold
  /\ yen_binary = None

NoCleanup ==
  /\ cleaned = None
  /\ filled = None

NoFile ==
  /\ file = None
  /\ read_back = None

\* The state once the stack is loaded.
Init ==
  /\ pc = "gaussian"
  /\ image_3d \in ConstantVolumes \cup MixedVolumes
  /\ min_size = MinSizeNotebook
  /\ NoFilters
  /\ NoMetricsYet
  /\ grid = None
  /\ NoThresholds
  /\ NoCleanup
  /\ NoFile
  /\ Loaded

(***************************************************************************)
(* The statements, in the order of the cells.                              *)
(***************************************************************************)
ApplyFilter(at, name, out, next) ==
  /\ pc = at
  /\ filters_dict' = [filters_dict EXCEPT ![name] = out]
  /\ pc' = next
  /\ UNCHANGED notebookVars
  /\ UNCHANGED <<image_3d, metricVars, grid, thresholdVars, cleanupVars, fileVars>>

GaussianFilter == ApplyFilter("gaussian", "Gaussian", gaussian_filter(image_3d), "median")

MedianFilter == ApplyFilter("median", "Median", median_filter(image_3d), "uniform")

UniformFilter == ApplyFilter("uniform", "Uniform", uniform_filter(image_3d), "maximum")

MaximumFilter == ApplyFilter("maximum", "Maximum", maximum_filter(image_3d), "minimum")

MinimumFilter == ApplyFilter("minimum", "Minimum", minimum_filter(image_3d), "percentile")

PercentileFilter == ApplyFilter("percentile", "Percentile-75", percentile_filter(image_3d), "rank")

RankFilter == ApplyFilter("rank", "Rank", rank_filter(image_3d), "metrics")

\* for name, filtered_img in filters_dict.items(): calculate_metrics(image_3d, filtered_img)
MetricsTable ==
  /\ pc = "metrics"
  /\ metrics' = [n \in FilterNames |-> calculate_metrics(image_3d, filters_dict[n])]
  /\ pc' = "enhance"
  /\ UNCHANGED notebookVars
  /\ UNCHANGED <<filterVars, original, filtered, returned, grid, thresholdVars, cleanupVars,
                 fileVars>>

\* image_3d = tifffile.imread(image_path); fig = create_enhancement_grid(image_3d)
EnhancementGrid ==
  /\ pc = "enhance"
  /\ Readable(local_file)
  /\ image_3d' = local_file.data
  /\ grid' = create_enhancement_grid(image_3d')
  /\ pc' = "otsu"
  /\ UNCHANGED notebookVars
  /\ UNCHANGED <<filters_dict, metricVars, thresholdVars, cleanupVars, fileVars>>

OtsuThreshold ==
  /\ pc = "otsu"
  /\ otsu_threshold' = threshold_otsu(median_filtered)
  /\ otsu_binary' = Binarize(median_filtered, otsu_threshold')
  /\ pc' = "adaptive"
  /\ UNCHANGED notebookVars
  /\ UNCHANGED <<filterVars, metricVars, grid, binary, i, adaptive_binary,
                 yen_threshold, yen_binary, cleanupVars, fileVars>>

\* binary = np.zeros_like(volume, dtype=bool), and the loop starts
AdaptiveEnter ==
  /\ pc = "adaptive"
  /\ binary' = Tuple3([z \in Zs(median_filtered) |->
                        [y \in Ys(median_filtered) |-> [x \in Xs(median_filtered) |-> FALSE]]])
  /\ i' = 0
  /\ pc' = "adaptive_loop"
  /\ UNCHANGED notebookVars
  /\ UNCHANGED <<filterVars, metricVars, grid, otsu_threshold, otsu_binary, adaptive_binary,
                 yen_threshold, yen_binary, cleanupVars, fileVars>>

\* one turn of for i in range(volume.shape[0])
AdaptiveSlice ==
  /\ pc = "adaptive_loop"
  /\ i < Len(median_filtered)
  /\ binary' = [binary EXCEPT ![i + 1] = ThresholdSlice(median_filtered, i)]
  /\ i' = i + 1
  /\ UNCHANGED notebookVars
  /\ UNCHANGED <<pc, filterVars, metricVars, grid, otsu_threshold, otsu_binary, adaptive_binary,
                 yen_threshold, yen_binary, cleanupVars, fileVars>>

\* return binary
AdaptiveReturn ==
  /\ pc = "adaptive_loop"
  /\ i >= Len(median_filtered)
  /\ adaptive_binary' = binary
  /\ pc' = "yen"
  /\ UNCHANGED notebookVars
  /\ UNCHANGED <<filterVars, metricVars, grid, otsu_threshold, otsu_binary, binary, i,
                 yen_threshold, yen_binary, cleanupVars, fileVars>>

YenThreshold ==
  /\ pc = "yen"
  /\ yen_threshold' = threshold_yen(median_filtered)
  /\ yen_binary' = Binarize(median_filtered, yen_threshold')
  /\ pc' = "remove_small"
  /\ UNCHANGED notebookVars
  /\ UNCHANGED <<filterVars, metricVars, grid, otsu_threshold, otsu_binary, binary, i,
                 adaptive_binary, cleanupVars, fileVars>>

\* binary_image = otsu_binary; cleaned = morphology.remove_small_objects(binary_image, min_size)
\* a cleanup cell that takes the adaptive binarization
BinaryImageAdaptive == adaptive_binary

\* binary_image=otsu_binary
binary_image == otsu_binary

RemoveSmallObjects ==
  /\ pc = "remove_small"
  /\ cleaned' = remove_small_objects(binary_image, min_size)
  /\ pc' = "fill_holes"
  /\ UNCHANGED notebookVars
  /\ UNCHANGED <<filterVars, metricVars, grid, thresholdVars, min_size, filled, fileVars>>

FillHoles ==
  /\ pc = "fill_holes"
  /\ filled' = binary_fill_holes(cleaned)
  /\ pc' = "render"
  /\ UNCHANGED notebookVars
  /\ UNCHANGED <<filterVars, metricVars, grid, thresholdVars, min_size, cleaned, fileVars>>

\* fig = show_cube(filled)
Render ==
  /\ pc = "render"
  /\ rendered' = filled
  /\ pc' = "save"
  /\ UNCHANGED <<loaderVars, kernelVars, fig_2d>>
  /\ UNCHANGED <<filterVars, metricVars, grid, thresholdVars, cleanupVars, fileVars>>

\* tifffile.imwrite('binary_result.tif', filled.astype(np.uint8) * 255)
SaveResult ==
  /\ pc = "save"
  /\ \E separate_planes \in BOOLEAN :
       file' = imwrite(Encode(filled), separate_planes)
  /\ pc' = "saved"
  /\ UNCHANGED notebookVars
  /\ UNCHANGED <<filterVars, metricVars, grid, thresholdVars, cleanupVars, read_back>>

\* a reader of the written stack
ReadBack ==
  /\ pc = "saved"
  /\ read_back' = imread(file)
  /\ pc' = "read"
  /\ UNCHANGED notebookVars
  /\ UNCHANGED <<filterVars, metricVars, grid, thresholdVars, cleanupVars, file>>

Next ==
  \/ GaussianFilter
  \/ MedianFilter
  \/ UniformFilter
  \/ MaximumFilter
  \/ MinimumFilter
  \/ PercentileFilter
  \/ RankFilter
  \/ MetricsTable
  \/ EnhancementGrid
  \/ OtsuThreshold
  \/ AdaptiveEnter
  \/ AdaptiveSlice
  \/ AdaptiveReturn
  \/ YenThreshold
  \/ RemoveSmallObjects
  \/ FillHoles
  \/ Render
  \/ SaveResult
  \/ ReadBack

Spec == Init /\ [][Next]_vars

(***************************************************************************)
(* calculate_metrics on its own: the two arguments are any two volumes of  *)
(* one shape with 8-bit samples.                                           *)
(***************************************************************************)
\* the number of voxels of the volumes given to calculate_metrics
MetricsVoxels == 2

MetricSamples == {0, 16, 100, 255}

MetricVolumes == VolumesOver(<<1, 1, MetricsVoxels>>, MetricSamples)

InitMetrics ==
  /\ pc = "call_metrics"
  /\ original \in MetricVolumes
  /\ filtered \in MetricVolumes
  /\ returned = NoMetrics
  /\ metrics = [n \in FilterNames |-> NoMetrics]
  /\ image_3d = None
  /\ min_size = MinSizeNotebook
  /\ NoFilters
  /\ grid = None
  /\ NoThresholds
  /\ NoCleanup
  /\ NoFile
  /\ Loaded

\* mse, snr = calculate_metrics(original, filtered)
CalculateMetrics ==
  /\ pc = "call_metrics"
  /\ returned' = calculate_metrics(original, filtered)
  /\ pc' = "metrics_returned"
  /\ UNCHANGED notebookVars
  /\ UNCHANGED <<filterVars, original, filtered, metrics, grid, thresholdVars, cleanupVars,
                 fileVars>>

NextMetrics == CalculateMetrics

SpecMetrics == InitMetrics /\ [][NextMetrics]_vars

(***************************************************************************)
(* create_enhancement_grid on its own: the volume is any volume of one or  *)
(* two slices of one row.                                                  *)
(***************************************************************************)
\* the width of the slices given to create_enhancement_grid
EnhanceWidth == 2

EnhanceSamples == {0, 64, 128, 255}

EnhanceVolumes ==
  UNION {VolumesOver(<<d, 1, EnhanceWidth>>, EnhanceSamples) : d \in 1..2}

InitEnhance ==
  /\ pc = "enhance"
  /\ image_3d \in EnhanceVolumes
  /\ min_size = MinSizeNotebook
  /\ NoFilters
  /\ NoMetricsYet
  /\ grid = None
  /\ NoThresholds
  /\ NoCleanup
  /\ NoFile
  /\ Loaded

NextEnhance == EnhancementGrid

SpecEnhance == InitEnhance /\ [][NextEnhance]_vars

(***************************************************************************)
(* The cleanup cell and the writer on their own: binary_image is a volume  *)
(* of shells, blocks and small objects in a cube of CleanupDim voxels a    *)
(* side, or any part of the centre voxel and its six neighbours in a cube  *)
(* of three a side; min_size is the notebook's 100 or a size that the      *)
(* objects of these volumes lie on both sides of.                          *)
(***************************************************************************)
\* the side of the cube
CleanupDim == 5

Cube == <<CleanupDim, CleanupDim, CleanupDim>>

\* the voxels at least k away from every face of the array
Box(k, shape) ==
  {p \in Idx(shape) : \A a \in 1..3 : k < p[a] /\ p[a] <= shape[a] - k}

Shell(k, shape) == Box(k, shape) \ Box(k + 1, shape)

Centre(shape) == <<(shape[1] + 1) \div 2, (shape[2] + 1) \div 2, (shape[3] + 1) \div 2>>

Corner == <<1, 1, 1>>

Volume(shape, fg) ==
  Tuple3([z \in 1..shape[1] |-> [y \in 1..shape[2] |-> [x \in 1..shape[3] |->
      <<z, y, x>> \in fg]]])

Bigs == {{}, Box(0, Cube), Shell(0, Cube), Shell(1, Cube)}

\* voxels taken out of the large object: none, a channel through the middle
\* of a face, the neighbours of a corner
Punches ==
  LET c == Centre(Cube)
  IN  {{}, {<<1, c[2], c[3]>>, <<2, c[2], c[3]>>}, FaceNeighbours(Corner)}

Smalls ==
  LET c == Centre(Cube)
  IN  {{}, {c}, {c, <<c[1] + 1, c[2], c[3]>>}, {Corner}}

ShellVolumes ==
  {Volume(Cube, (big \ punch) \cup small) : big \in Bigs, punch \in Punches, small \in Smalls}

Star == {<<2, 2, 2>>} \cup FaceNeighbours(<<2, 2, 2>>)

StarVolumes == {Volume(<<3, 3, 3>>, fg) : fg \in SUBSET Star}

CleanupVolumes == ShellVolumes \cup StarVolumes

MinSizes == {2, 3, MinSizeNotebook}

InitCleanup ==
  /\ pc = "remove_small"
  /\ otsu_binary \in CleanupVolumes
  /\ min_size \in MinSizes
  /\ image_3d = None
  /\ NoFilters
  /\ NoMetricsYet
  /\ grid = None
  /\ otsu_threshold = NoThreshold
  /\ binary = None
  /\ i = 0
  /\ adaptive_binary = None
  /\ yen_threshold = NoThreshold
  /\ yen_binary = None
  /\ NoCleanup
  /\ NoFile
  /\ Loaded

NextCleanup ==
  \/ RemoveSmallObjects
  \/ FillHoles
  \/ Render
  \/ SaveResult
  \/ ReadBack

SpecCleanup == InitCleanup /\ [][NextCleanup]_vars

(***************************************************************************)
(* The notebook from a fresh kernel: the loader cell, then the cells in    *)
(* their order.  A statement that raises ends its cell; the cells after it *)
(* are then run one by one, or not at all.  The stack is a volume of two   *)
(* intensities, a constant volume, or a volume of slabs whose objects lie  *)
(* on both sides of min_size = 100.                                        *)
(***************************************************************************)
SlabStack ==
  Tuple3([z \in 1..8 |-> [y \in 1..5 |-> [x \in 1..5 |->
      IF z \in {1, 2, 5, 6, 7, 8} THEN 1 ELSE 0]]])

StackVolumes == {<<<<<<50, 200>>>>>>, <<<<<<5>>, <<5>>>>>>, SlabStack}

\* what a response carries: a stack, or bytes that are no stack
Contents == StackVolumes \cup {None}

Exception(cell, kind, caught) == [cell |-> cell, kind |-> kind, caught |-> caught]

pipelineVars == <<filterVars, metricVars, grid, thresholdVars, cleanupVars, fileVars>>

InitNotebook ==
  /\ pc = "loader"
  /\ namespace \in SUBSET LibraryNames
  /\ image_url \in URLs
  /\ local_file \in {Absent, Corrupt} \cup {[exists |-> TRUE, data |-> v] : v \in StackVolumes}
  /\ response = NoResponse
  /\ requests_log = <<>>
  /\ stdout = <<>>
  /\ exceptions = <<>>
  /\ fig_2d = None
  /\ rendered = None
  /\ image_3d = None
  /\ min_size = MinSizeNotebook
  /\ NoFilters
  /\ NoMetricsYet
  /\ grid = None
  /\ NoThresholds
  /\ NoCleanup
  /\ NoFile

\* if not os.path.exists(image_path): the file exists
FileExists ==
  /\ pc = "loader"
  /\ local_file.exists
  /\ pc' = "try"
  /\ UNCHANGED <<notebookVars, pipelineVars>>

\* response = requests.get(image_url)
RequestConfigured ==
  /\ pc = "loader"
  /\ ~local_file.exists
  /\ \E status \in Statuses, content \in Contents :
       response' = [status_code |-> status, content |-> content]
  /\ requests_log' = Append(requests_log, image_url)
  /\ pc' = IF ContainsBlob(image_url) THEN "request_raw" ELSE "status"
  /\ UNCHANGED <<image_url, local_file, kernelVars, fig_2d, rendered, pipelineVars>>

\* response = requests.get(raw_url)
RequestRaw ==
  /\ pc = "request_raw"
  /\ \E status \in Statuses, content \in Contents :
       response' = [status_code |-> status, content |-> content]
  /\ requests_log' = Append(requests_log, raw_url(image_url))
  /\ pc' = "status"
  /\ UNCHANGED <<image_url, local_file, kernelVars, fig_2d, rendered, pipelineVars>>

\* the cells after the one that raised are run by hand, or not
Raise(at, kind, next) ==
  /\ pc = at
  /\ exceptions' = Append(exceptions, Exception(at, kind, FALSE))
  /\ pc' \in {next, "halted"}
  /\ UNCHANGED <<loaderVars, namespace, stdout, fig_2d, rendered, pipelineVars>>

\* requests.get raises: it is called outside the try
RequestRaises ==
  \/ ~local_file.exists /\ Raise("loader", "ConnectionError", "gaussian")
  \/ Raise("request_raw", "ConnectionError", "gaussian")

\* if response.status_code == 200: f.write(response.content)
WriteFile ==
  /\ pc = "status"
  /\ response.status_code = 200
  /\ local_file' = [exists |-> TRUE, data |-> response.content]
  /\ pc' = "try"
  /\ UNCHANGED <<image_url, response, requests_log, kernelVars, fig_2d, rendered, pipelineVars>>

NoWrite ==
  /\ pc = "status"
  /\ response.status_code # 200
  /\ pc' = "try"
  /\ UNCHANGED <<notebookVars, pipelineVars>>

\* try: image_3d = tifffile.imread(image_path); print(...)
TryRead ==
  /\ pc = "try"
  /\ Readable(local_file)
  /\ image_3d' = local_file.data
  /\ stdout' = Append(stdout, "Image shape")
  /\ pc' = "plot"
  /\ UNCHANGED <<loaderVars, namespace, exceptions, fig_2d, rendered>>
  /\ UNCHANGED <<filters_dict, metricVars, grid, thresholdVars, cleanupVars, fileVars>>

\* an except branch that goes on with a volume of its own
ExceptLoadWithFallback ==
  /\ pc = "try"
  /\ ~Readable(local_file)
  /\ exceptions' = Append(exceptions, Exception("try", "FileNotFoundError", TRUE))
  /\ stdout' = Append(stdout, "Error loading the image")
  /\ image_3d' = <<<<<<0>>>>>>
  /\ pc' = "plot"
  /\ UNCHANGED <<loaderVars, namespace, fig_2d, rendered>>
  /\ UNCHANGED <<filters_dict, metricVars, grid, thresholdVars, cleanupVars, fileVars>>

\* except Exception as e: print(f"Error loading the image: {e}")
ExceptLoad ==
  /\ pc = "try"
  /\ ~Readable(local_file)
  /\ exceptions' =
       Append(exceptions,
              Exception("try", IF local_file.exists THEN "TiffFileError" ELSE "FileNotFoundError",
                        TRUE))
  /\ stdout' = Append(stdout, "Error loading the image")
  /\ pc' = "plot"
  /\ UNCHANGED <<loaderVars, namespace, fig_2d, rendered, pipelineVars>>

\* fig_2d = plot_2d_slices(image_3d, "Original Volume - 2D Slices")
PlotSlices ==
  /\ pc = "plot"
  /\ image_3d # None
  /\ fig_2d' = image_3d
  /\ pc' = "gaussian"
  /\ UNCHANGED <<loaderVars, kernelVars, rendered, pipelineVars>>

AllFiltered == \A n \in FilterNames : filters_dict[n] # None

\* the statement at pc finds the names it uses
CanRun ==
  CASE pc = "plot" -> image_3d # None
    [] pc \in {"gaussian", "median", "uniform", "maximum", "minimum", "percentile", "rank"} ->
         Bound("ndimage") /\ image_3d # None
    [] pc = "metrics" -> AllFiltered /\ image_3d # None
    [] pc = "enhance" -> Readable(local_file)
    [] pc \in {"otsu", "yen"} -> Bound("filters") /\ median_filtered # None
    [] pc = "adaptive" -> Bound("time")
    [] pc = "adaptive_loop" -> Bound("filters")
    [] pc = "remove_small" -> Bound("morphology") /\ otsu_binary # None
    [] pc = "fill_holes" -> Bound("ndimage")
    [] pc \in {"render", "save"} -> filled # None
    [] OTHER -> TRUE

\* the cell that follows the cell of the statement at pc
NextCell ==
  CASE pc \in {"loader", "request_raw", "status", "try", "plot"} -> "gaussian"
    [] pc \in {"gaussian", "median"} -> "uniform"
    [] pc \in {"uniform", "maximum", "minimum", "percentile", "rank"} -> "metrics"
    [] pc = "metrics" -> "enhance"
    [] pc = "enhance" -> "otsu"
    [] pc \in {"otsu", "adaptive", "adaptive_loop", "yen"} -> "remove_small"
    [] pc \in {"remove_small", "fill_holes"} -> "render"
    [] pc = "render" -> "save"
    [] OTHER -> "halted"

CellPositions ==
  {"plot", "gaussian", "median", "uniform", "maximum", "minimum", "percentile", "rank",
   "metrics", "enhance", "otsu", "adaptive", "adaptive_loop", "yen", "remove_small",
   "fill_holes", "render", "save"}

\* a name that is not bound, or a second read of a stack that cannot be read
CellRaises ==
  /\ pc \in CellPositions
  /\ ~CanRun
  /\ Raise(pc, IF pc = "enhance" THEN "FileNotFoundError or TiffFileError" ELSE "NameError",
           NextCell)

NextNotebook ==
  \/ FileExists
  \/ RequestConfigured
  \/ RequestRaw
  \/ RequestRaises
  \/ WriteFile
  \/ NoWrite
  \/ TryRead
  \/ ExceptLoad
  \/ PlotSlices
  \/ CellRaises
  \/ CanRun /\ Next

SpecNotebook == InitNotebook /\ [][NextNotebook]_vars

(***************************************************************************)
(* adaptive_threshold_3d on its own: every volume of the intensities 50    *)
(* and 200 with slices of two pixels, in a row or in a column, up to       *)
(* AdaptiveDepth slices, as the argument of the call                       *)
(* adaptive_binary = adaptive_threshold_3d(median_filtered).  A call that  *)
(* has started runs to its return: the loop is the only thing running.     *)
(***************************************************************************)
AdaptiveVolumesOf(depth) ==
  VolumesOver(<<depth, 1, 2>>, Clusters) \cup VolumesOver(<<depth, 2, 1>>, Clusters)

AdaptiveVolumes == UNION {AdaptiveVolumesOf(depth) : depth \in 1..AdaptiveDepth}

InitAdaptive ==
  /\ pc = "adaptive"
  /\ image_3d = None
  /\ \E v \in AdaptiveVolumes :
       filters_dict = [n \in FilterNames |-> IF n = "Median" THEN v ELSE None]
  /\ min_size = MinSizeNotebook
  /\ NoMetricsYet
  /\ grid = None
  /\ NoThresholds
  /\ NoCleanup
  /\ NoFile
  /\ Loaded

NextAdaptive ==
  \/ AdaptiveEnter
  \/ AdaptiveSlice
  \/ AdaptiveReturn

\* the control flow of NextAdaptive: what pc and i do in each of its steps
AdaptiveControl ==
  \/ pc = "adaptive" /\ pc' = "adaptive_loop" /\ i' = 0
  \/ pc = "adaptive_loop" /\ i < Len(median_filtered) /\ pc' = pc /\ i' = i + 1
  \/ pc = "adaptive_loop" /\ i >= Len(median_filtered) /\ pc' = "yen" /\ i' = i

\* the interpreter goes on with the statement the call has reached
SpecAdaptive == InitAdaptive /\ [][NextAdaptive]_vars /\ WF_<<pc, i>>(AdaptiveControl)

(***************************************************************************)
(* Properties of calculate_metrics, under SpecMetrics.                     *)
(***************************************************************************)
MetricsReturned == pc = "metrics_returned"

\* the squared error on the integers, without the wrap of 8-bit arithmetic
SquaredErrorExact(o, f) == (o - f) * (o - f)

\* the sum, over the voxels, of the squared differences as integers
SumOfSquares ==
  SumOver([p \in Places(original) |-> SquaredErrorExact(Val(original, p), Val(filtered, p))],
          Places(original))

\* the variance as E[x^2] - E[x]^2, over the denominator n^2
VarianceFormula(v) ==
  LET P == Places(v)
      n == Cardinality(P)
      s == SumAt(v, P)
  IN  <<n * SumOver([p \in P |-> Val(v, p) * Val(v, p)], P) - s * s, n * n>>

\* C1: calculate_metrics returns MSE = 0 when filtered equals original at
\* every voxel; whenever the MSE it computed is 0 it returns SNR = +infinity
\* and no quotient by zero is formed; for MSE > 0 it returns
\* 10 * log10(var(original) / MSE).
C1_ZeroMseGivesInfiniteSnr ==
  MetricsReturned =>
    /\ (original = filtered => returned.mse[1] = 0)
    /\ (returned.mse[1] = 0 => returned.snr.kind = "inf")
    /\ (returned.mse[1] > 0 =>
          /\ returned.snr.kind = "dB"
          /\ returned.snr.of[2] # 0
          /\ returned.snr.of =
               Reduce(<<VarianceFormula(original)[1] * returned.mse[2],
                        VarianceFormula(original)[2] * returned.mse[1]>>))

C1_Witness ==
  /\ MetricsReturned
  /\ original = filtered
  /\ Cardinality(Values(original)) > 1
  /\ returned.mse[1] = 0
  /\ returned.snr.kind = "inf"

\* C2: for volumes of unsigned 8-bit samples the MSE returned is the mean
\* over the voxels of (original - filtered)^2 on the integers: neither the
\* difference nor the square wraps modulo 2^8.
C2_MseIsMeanOfIntegerSquares ==
  MetricsReturned =>
    returned.mse = <<SumOfSquares, Cardinality(Places(original))>>

(***************************************************************************)
(* Properties of create_enhancement_grid, under SpecEnhance.               *)
(***************************************************************************)
GridShown == DOMAIN grid # {}

slice_2d == MiddleSlice(image_3d)

Pixels(s) == (1..Len(s)) \X (1..Len(s[1]))

\* the index in Factors of the factor 1.0
Unit == CHOOSE k \in 1..Len(Factors) : Factors[k] = 10

\* C3: the grid entry with brightness 1.0 and contrast 1.0 is the identity:
\* its 8-bit output equals the input slice up to 8-bit rounding, whatever
\* the mean of the slice.
C3_UnitFactorsAreIdentity ==
  GridShown =>
    \A q \in Pixels(slice_2d) :
      Abs(grid[<<Unit, Unit>>][q[1]][q[2]] - slice_2d[q[1]][q[2]]) <= 1

\* The output for a sample a of a slice of n pixels of sum s, contrast c and
\* brightness b in tenths: b/10 * (c*a/2550 - c*s/(2550*n) + 1/2), clipped
\* to [0, 1], times 255, rounded.
InOrder(a, s, n, c, b) ==
  LET num == b * (2 * n * c * a - 2 * c * s + 10 * (Byte - 1) * n)
      den == 200 * (Byte - 1) * n
      clipped == IF num < 0 THEN 0 ELSE IF num > den THEN den ELSE num
  IN  Rint((Byte - 1) * clipped, den)

Assigned(a) == a # None

\* a is an array of booleans or samples of the given (depth, height, width)
HasShape(a, shape) ==
  /\ Len(a) = shape[1]
  /\ \A z \in 1..Len(a) :
       /\ Len(a[z]) = shape[2]
       /\ \A y \in 1..Len(a[z]) : Len(a[z][y]) = shape[3]

\* the binary arrays the cells derive from the loaded volume
Binaries == <<otsu_binary, binary, adaptive_binary, yen_binary, cleaned, filled>>

\* C8: every array derived in the pipeline (the seven filtered volumes, the
\* Otsu, adaptive and Yen binarizations, the result of small-object removal
\* and of hole filling) has the (depth, height, width) of the loaded volume,
\* so each operation returns the shape of its input.
C8_ShapePreserved ==
  /\ \A n \in FilterNames :
       Assigned(filters_dict[n]) => HasShape(filters_dict[n], Shape(image_3d))
  /\ \A k \in DOMAIN Binaries :
       Assigned(Binaries[k]) => HasShape(Binaries[k], Shape(image_3d))

\* the whole pipeline has run on a volume of three different extents
C8_Witness ==
  /\ pc = "save"
  /\ Shape(image_3d) = <<3, 1, 2>>
  /\ \A n \in FilterNames : HasShape(filters_dict[n], <<3, 1, 2>>)
  /\ \A k \in DOMAIN Binaries : HasShape(Binaries[k], <<3, 1, 2>>)

IsConstant(v) == Cardinality(Values(v)) = 1

TwoClusters(v) == Assigned(v) /\ Values(v) = Clusters

\* the voxels of v with the value 200 are exactly those marked in b
MarksUpperCluster(b, v) ==
  \A p \in Idx(Shape(v)) : Val(b, p) <=> (Val(v, p) = Max(Clusters))

OtsuDone == otsu_threshold # NoThreshold

YenDone == yen_threshold # NoThreshold

\* C10 as stated: on a thresholded volume whose intensities are only 50 and
\* 200, the Otsu and the Yen threshold are both strictly between 50 and 200.
C10_ThresholdStrictlyBetween ==
  TwoClusters(median_filtered) =>
    /\ (OtsuDone => Min(Clusters) < otsu_threshold /\ otsu_threshold < Max(Clusters))
    /\ (YenDone => Min(Clusters) < yen_threshold /\ yen_threshold < Max(Clusters))

\* C10 as the code has it: on a thresholded volume whose intensities are
\* only 50 and 200, the Otsu and the Yen threshold both satisfy
\* 50 <= threshold < 200 (both are 50, the lower intensity), and binarizing
\* by value > threshold marks exactly the voxels of intensity 200.
C10_ThresholdSeparatesClusters ==
  TwoClusters(median_filtered) =>
    /\ (OtsuDone =>
          /\ Min(Clusters) <= otsu_threshold /\ otsu_threshold < Max(Clusters)
          /\ MarksUpperCluster(otsu_binary, median_filtered))
    /\ (YenDone =>
          /\ Min(Clusters) <= yen_threshold /\ yen_threshold < Max(Clusters)
          /\ MarksUpperCluster(yen_binary, median_filtered))

\* both thresholds are computed on a volume of the two intensities
C10_Witness ==
  /\ TwoClusters(median_filtered)
  /\ OtsuDone /\ YenDone
  /\ otsu_threshold = Min(Clusters)
  /\ yen_threshold = Min(Clusters)
  /\ \E p \in Idx(Shape(otsu_binary)) : Val(otsu_binary, p)
  /\ \E p \in Idx(Shape(yen_binary)) : ~Val(yen_binary, p)

(***************************************************************************)
(* Properties of the cleanup cell and the writer, under SpecCleanup.       *)
(***************************************************************************)
CleanupDone == pc \in {"render", "save", "saved", "read"}

Components == Label(Foreground(binary_image))

\* binary_image has exactly two components, small below min_size and large above
SmallAndLarge(small, large) ==
  /\ Components = {small, large}
  /\ Cardinality(small) < min_size
  /\ Cardinality(large) > min_size

\* p lies in a hole of the object: no path of face neighbours outside the
\* object leads from p to a face of the array
Enclosed(p, object) ==
  /\ p \notin object
  /\ \A q \in Flood({p}, {p}, Places(binary_image) \ object) :
       ~OnBorder(q, Shape(binary_image))

\* C5 as stated: of exactly two components, one below min_size and one
\* above it, the cleaned and filled volume contains every voxel of the
\* larger and no voxel of the smaller.
C5_OnlyLargerComponentRetained ==
  CleanupDone =>
    \A small, large \in Components :
      SmallAndLarge(small, large) =>
        /\ large \subseteq Foreground(filled)
        /\ small \cap Foreground(filled) = {}

\* C5 as the code has it: of exactly two components, one below min_size
\* and one above it, the cleaned and filled volume contains every voxel of
\* the larger, and a voxel of the smaller exactly when that voxel lies in a
\* hole of the larger, which hole filling fills again.
C5_SmallerRetainedOnlyInsideHole ==
  CleanupDone =>
    \A small, large \in Components :
      SmallAndLarge(small, large) =>
        /\ large \subseteq Foreground(filled)
        /\ \A p \in small : Val(filled, p) <=> Enclosed(p, large)

\* a small object inside the cavity of a closed shell: removed, then filled
C5_Witness ==
  /\ CleanupDone
  /\ \E small, large \in Components :
       /\ SmallAndLarge(small, large)
       /\ small \cap Foreground(cleaned) = {}
       /\ small \subseteq Foreground(filled)
       /\ large \subseteq Foreground(filled)

\* C6: hole filling is idempotent: filling the holes of a filled volume
\* changes no voxel, for the volume the cell fills and for binary_image.
C6_FillHolesIdempotent ==
  /\ binary_fill_holes(binary_fill_holes(binary_image)) = binary_fill_holes(binary_image)
  /\ CleanupDone => binary_fill_holes(filled) = filled

\* hole filling has changed the cleaned volume
C6_Witness ==
  /\ CleanupDone
  /\ filled # cleaned
  /\ binary_fill_holes(filled) = filled

Written == pc \in {"saved", "read"}

\* C7: the written samples are 255 exactly where the filled volume is true
\* and 0 exactly where it is false, the file has one page per depth index,
\* and reading it back gives an array of the same shape and values.
C7_OnePagePerDepthIndex ==
  /\ Written =>
       /\ Len(file.pages) = Len(filled)
       /\ \A k \in DOMAIN file.pages :
            \A j \in DOMAIN file.pages[k].strip : file.pages[k].strip[j] \in {0, Byte - 1}
  /\ pc = "read" =>
       /\ HasShape(read_back, Shape(filled))
       /\ \A p \in Idx(Shape(filled)) :
            Val(read_back, p) = IF Val(filled, p) THEN Byte - 1 ELSE 0

(***************************************************************************)
(* Properties of the notebook from a fresh kernel, under SpecNotebook.     *)
(***************************************************************************)
\* the read of the stack in the loader's try has raised
LoadFailed == \E k \in DOMAIN exceptions : exceptions[k].cell = "try"

Caught == {k \in DOMAIN exceptions : exceptions[k].caught}

ErrorsPrinted == {k \in DOMAIN stdout : stdout[k] = "Error loading the image"}

\* no stage after the loader has a result, and binary_result.tif is not written
NothingProduced ==
  /\ fig_2d = None
  /\ NoFilters
  /\ metrics = [n \in FilterNames |-> NoMetrics]
  /\ DOMAIN grid = {}
  /\ NoThresholds
  /\ NoCleanup
  /\ rendered = None
  /\ DOMAIN file = {}

\* C11: when the read of the stack raises in the loader (no file after a
\* response that is not 200, or a file that does not decode), the exception
\* is caught exactly once, by the loader's except, the error message is
\* printed, and from then on no later stage (slice view, filters, metrics,
\* enhancement, thresholds, cleanup, render) has a result and
\* binary_result.tif is not written.
C11_LoadFailureStopsPipeline ==
  LoadFailed =>
    /\ Cardinality(Caught) = 1
    /\ \A k \in Caught : exceptions[k].cell = "try"
    /\ Cardinality(ErrorsPrinted) = 1
    /\ image_3d = None
    /\ NothingProduced

\* the download was refused, the read raised, and every later cell was run
C11_Witness ==
  /\ LoadFailed
  /\ Len(requests_log) > 0
  /\ response.status_code # 200
  /\ ~local_file.exists
  /\ pc = "halted"
  /\ \E k \in DOMAIN exceptions : exceptions[k].cell = "save"
  /\ NothingProduced

\* the URL the download is meant for: the rewritten one when image_url
\* contains 'blob', image_url itself otherwise
ResolvedURL == IF ContainsBlob(image_url) THEN raw_url(image_url) ELSE image_url

\* C12: the loader issues a request only while the local file is absent,
\* every request it issues goes to the resolved URL (the blob-to-raw URL
\* when image_url contains 'blob', image_url otherwise), and a local file
\* that exists is not overwritten.
C12_RequestsOnlyToResolvedURL ==
  [][/\ requests_log' # requests_log =>
          /\ ~local_file.exists
          /\ Len(requests_log') = Len(requests_log) + 1
          /\ requests_log'[Len(requests_log')] = ResolvedURL
     /\ local_file.exists => local_file' = local_file]_vars

(***************************************************************************)
(* Properties of adaptive_threshold_3d, under SpecAdaptive.                *)
(***************************************************************************)
AdaptiveReturned == pc = "yen"

\* the volumes of the shape of v that have the same slice as v at index idx
AgreeingAt(v, idx) ==
  {u \in AdaptiveVolumesOf(Len(v)) : Shape(u) = Shape(v) /\ u[idx + 1] = v[idx + 1]}

\* the returned slices depend on the slice of the same index alone
SliceIndependent ==
  AdaptiveReturned =>
    /\ adaptive_binary = adaptive_threshold_3d(median_filtered)
    /\ \A idx \in 0..(Len(median_filtered) - 1) :
         \A u \in AgreeingAt(median_filtered, idx) :
           adaptive_threshold_3d(u)[idx + 1] = adaptive_binary[idx + 1]

\* a turn of the loop takes the next index, writes the slice of that index
\* of binary and no other, and every step leaves the argument as it was
OneIndexPerTurn ==
  /\ median_filtered' = median_filtered
  /\ (pc = "adaptive" /\ pc' = "adaptive_loop") => i' = 0
  /\ (pc = "adaptive_loop" /\ pc' = "adaptive_loop") =>
       /\ i \in 0..(Len(median_filtered) - 1)
       /\ i' = i + 1
       /\ \A z \in Zs(binary) : z # i + 1 => binary'[z] = binary[z]
       /\ binary'[i + 1] = ThresholdSlice(median_filtered, i)
  /\ (pc = "adaptive_loop" /\ pc' = "yen") => i = Len(median_filtered)

\* C13: adaptive_threshold_3d thresholds each depth slice on its own: two
\* volumes of the same shape that agree on slice i give outputs that agree
\* on slice i, whatever the other slices are; the loop takes the indices
\* 0..shape[0]-1 in turn, each once, the call returns, and the argument is
\* left unchanged.
C13_SlicesIndependentLoopTerminates ==
  /\ []SliceIndependent
  /\ [][OneIndexPerTurn]_vars
  /\ (pc = "adaptive") ~> AdaptiveReturned

\* a returned call on a volume of two or more slices that differ, where the
\* output slices differ as well
C13_Witness ==
  /\ AdaptiveReturned
  /\ Len(median_filtered) >= 2
  /\ i = Len(median_filtered)
  /\ median_filtered[1] # median_filtered[2]
  /\ adaptive_binary[1] # adaptive_binary[2]
  /\ Cardinality(AgreeingAt(median_filtered, 0)) > 1

(***************************************************************************)
(* Properties of the order of the stages, under SpecNotebook.              *)
(***************************************************************************)
\* fill_holes(remove_small_objects(median_filtered > Otsu(median_filtered), min_size=100))
OtsuCleaned ==
  binary_fill_holes(
    remove_small_objects(Greater(median_filtered, threshold_otsu(median_filtered)),
                         MinSizeNotebook))

\* a stage has a result only when the stage before it has one
StagesInOrder ==
  /\ Assigned(otsu_binary) => Assigned(median_filtered)
  /\ Assigned(adaptive_binary) => Assigned(otsu_binary)
  /\ Assigned(yen_binary) => Assigned(adaptive_binary)
  /\ Assigned(cleaned) => Assigned(otsu_binary)
  /\ Assigned(filled) => Assigned(cleaned)
  /\ Assigned(rendered) => Assigned(filled)
  /\ DOMAIN file # {} => Assigned(rendered)

\* C14: the stages run in one order, and the volume given to show_cube and
\* the volume written to binary_result.tif are always
\* fill_holes(remove_small_objects(median_filtered > Otsu(median_filtered),
\* min_size=100)): the Otsu threshold is that of the median-filtered volume,
\* small objects are removed from the Otsu binarization before holes are
\* filled, and the adaptive and the Yen binarizations go into neither.
C14_OtsuCleanedRenderedAndWritten ==
  /\ StagesInOrder
  /\ min_size = MinSizeNotebook
  /\ Assigned(otsu_binary) =>
       /\ otsu_threshold = threshold_otsu(median_filtered)
       /\ otsu_binary = Greater(median_filtered, otsu_threshold)
  /\ Assigned(cleaned) => cleaned = remove_small_objects(otsu_binary, MinSizeNotebook)
  /\ Assigned(filled) => filled = binary_fill_holes(cleaned) /\ filled = OtsuCleaned
  /\ Assigned(rendered) => rendered = OtsuCleaned
  /\ DOMAIN file # {} =>
       \E separate_planes \in BOOLEAN : file = imwrite(Encode(OtsuCleaned), separate_planes)

\* a written result that keeps a part of the Otsu binarization and drops a
\* part, after an adaptive binarization that is another volume
C14_Witness ==
  /\ DOMAIN file # {}
  /\ rendered = OtsuCleaned
  /\ Assigned(adaptive_binary)
  /\ Assigned(yen_binary)
  /\ adaptive_binary # otsu_binary
  /\ cleaned # otsu_binary
  /\ Foreground(filled) # {}
  /\ filled # binary_fill_holes(remove_small_objects(adaptive_binary, MinSizeNotebook))

(***************************************************************************)
(* Properties of the result of the cleanup, under SpecCleanup.             *)
(***************************************************************************)
\* C15: after the cleanup (components of fewer than min_size voxels removed,
\* then holes filled) the result has no face-connected foreground component
\* of fewer than min_size voxels, and every voxel set after the removal is
\* set after the filling.
C15_NoSmallComponentAfterCleanup ==
  CleanupDone =>
    /\ \A c \in Label(Foreground(filled)) : Cardinality(c) >= min_size
    /\ Foreground(cleaned) \subseteq Foreground(filled)

\* a cleanup that removed a small component and filled a hole of a
\* component that stayed
C15_Witness ==
  /\ CleanupDone
  /\ \E c \in Label(Foreground(binary_image)) : Cardinality(c) < min_size
  /\ Foreground(cleaned) # Foreground(binary_image)
  /\ Foreground(cleaned) # {}
  /\ Foreground(filled) # Foreground(cleaned)

====
